---- MODULE Spec2Model ----
(***************************************************************************)
(* ChatBook backend (backend/main.py, backend/models.py): the in-memory    *)
(* ConnectionManager, the per-connection coroutine chat_websocket and the  *)
(* messages table it writes; the history query get_messages; the token     *)
(* routes login and refresh_token.                                         *)
(*                                                                         *)
(* One step of the model is the code a coroutine runs between two points   *)
(* where it can be suspended (an await that really waits: receive_json,    *)
(* send_json).  The SQLAlchemy session is synchronous, so a received frame *)
(* is validated, persisted and the recipient looked up in one step.        *)
(***************************************************************************)
EXTENDS Integers, Sequences, FiniteSets, TLC

\* ---------------------------------------------------------------- bounds
MaxSessions == 2    \* websocket connections opened during a run
MaxFrames   == 2    \* inbound frames received during a run, all sessions
MaxClock    == 1    \* ticks of the server clock (datetime.utcnow), minutes
MaxRotations == 3   \* refresh tokens /refresh-token accepts during a run

\* ------------------------------------------------------- program constants
ACCESS_TOKEN_EXPIRE_MINUTES == 30
REFRESH_TOKEN_EXPIRE_DAYS == 7
SECRET_KEY == "supersecretkey"

\* ------------------------------------------------------------ value sets
Absent    == "<absent>"       \* a JSON key that is not there / Python None
NoNum     == 0 - 1            \* the same, for a numeric field
NoSession == 0                \* dict.get / dict.pop default: None

Sessions   == 1..MaxSessions  \* WebSocket objects, one per connection
Identities == {"alice", "bob", "eve"}     \* path parameter {username}
Contents   == {"hi"}

\* rows of the users table: username |-> id ("eve" has no row)
User == [u \in {"alice", "bob"} |-> IF u = "alice" THEN 1 ELSE 2]

\* a lookup that finds a row for every name
get_user_by_username_Any(username) ==
    IF username \in DOMAIN User THEN User[username] ELSE 1

\* db.query(User).filter(User.username == username).first()
get_user_by_username(username) ==
    IF username \in DOMAIN User THEN User[username] ELSE NoNum

\* ---------------------------------------------------------------- tokens
\* a JWT: the claims of its payload and the key that signed it
Tokens == [sub  : {"alice"},
           type : {Absent},
           exp  : {NoNum, ACCESS_TOKEN_EXPIRE_MINUTES},
           key  : {SECRET_KEY, "forged"}]
NoToken == [sub |-> Absent, type |-> Absent, exp |-> NoNum, key |-> Absent]

\* jwt.decode(token, SECRET_KEY, algorithms=[ALGORITHM]): the payload, or
\* JWTError when the signature does not verify or exp has passed
JWTError == [sub |-> Absent, type |-> "JWTError", exp |-> NoNum, key |-> Absent]
jwt_decode(token, t) ==
    IF token.key = SECRET_KEY /\ token.exp >= t THEN token ELSE JWTError

\* the identity an access token validates to (Absent: it validates to none)
validate(token, t) ==
    IF jwt_decode(token, t) = JWTError THEN Absent ELSE jwt_decode(token, t).sub

\* main.py 71-75: jwt.encode of {"sub": sub, "exp": utcnow() + 30 minutes}
create_access_token(sub, t) ==
    [sub |-> sub, type |-> Absent, exp |-> t + ACCESS_TOKEN_EXPIRE_MINUTES,
     key |-> SECRET_KEY]

\* main.py 77-81: jwt.encode of {"sub": sub, "exp": utcnow() + 7 days,
\* "type": "refresh"}
create_refresh_token(sub, t) ==
    [sub |-> sub, type |-> "refresh",
     exp |-> t + REFRESH_TOKEN_EXPIRE_DAYS * 24 * 60, key |-> SECRET_KEY]

\* ----------------------------------------------------------------- state
VARIABLES
    active_connections, \* ConnectionManager.active_connections, as the set
                        \* of its items <<username, websocket>>
    messages,           \* the messages table, in insertion order
    origin,             \* history: for each message id, the session whose
                        \* frame produced the row
    pc,                 \* where each connection's coroutine stands
    username,           \* chat_websocket's path parameter, per session
    cur,                \* chat_websocket's locals for the frame in hand
    wire,               \* what the last step did at the edge of the process:
                        \* the call, the connection, the frame, how the call
                        \* ended, what send_personal_message returned, the
                        \* exception that left the loop, and for a connect
                        \* whether the client's token validates to its name
    nrecv,              \* frames received so far
    now,                \* datetime.utcnow()
    rotated             \* history: the refresh tokens /refresh-token has
                        \* accepted so far

vars == <<active_connections, messages, origin, pc, username, cur, wire,
          nrecv, now, rotated>>

NoCur == [to |-> Absent, content |-> Absent, id |-> NoNum,
          timestamp |-> NoNum, ws |-> NoSession]

\* ------------------------------------------------------------ JSON frames
Frame(from, to, content, st, ts, id, err) ==
    [from |-> from, to |-> to, content |-> content, status |-> st,
     timestamp |-> ts, id |-> id, error |-> err]

NoFrame           == Frame(Absent, Absent, Absent, Absent, NoNum, NoNum, Absent)
ErrorFrame(text)  == Frame(Absent, Absent, Absent, Absent, NoNum, NoNum, text)
\* main.py 213-219: the envelope pushed to the receiver
Envelope(from, c) == Frame(from, Absent, c.content, "sent", c.timestamp, c.id, Absent)
\* a confirmation that carries another id than the stored row's
AckFrame_OtherId(c) == Frame(Absent, c.to, c.content, "sent", c.timestamp, c.id + 1, Absent)
\* main.py 222-228: the confirmation sent back to the sender
AckFrame(c)       == Frame(Absent, c.to, c.content, "sent", c.timestamp, c.id, Absent)

\* the record of a step.  op: "connect", "send_json" on ws, a
\* "send_personal_message" that found no entry, or "none"; by: the session
\* whose coroutine took the step; data: the JSON object receive_json returned
\* in this step; out: how the send ended ("ok", "raised", "absent", "none");
\* ret: what send_personal_message returned if it returned in this step;
\* exc: the exception that left the loop of by, or "none"
NoData == [to |-> "<none>", content |-> "<none>"]
\* for a step that serves an HTTP request, req holds its parameters and res
\* the response: the status code, the JSON list of /messages and the token
\* pair of /login and /refresh-token
NoReq == [user1 |-> Absent, user2 |-> Absent, refresh_token |-> NoToken]
NoRes == [status |-> 0, rows |-> << >>, access_token |-> NoToken,
          refresh_token |-> NoToken]
Event(op, by, data, ws, frame, out, ret, exc, auth) ==
    [op |-> op, by |-> by, data |-> data, ws |-> ws, frame |-> frame,
     out |-> IF out \in {"ok", "absent", "none"} THEN out ELSE "raised",
     ret |-> ret, exc |-> exc, auth |-> auth, req |-> NoReq, res |-> NoRes]
NoEvent ==
    Event("none", NoSession, NoData, NoSession, NoFrame, "none", "unset", "none", FALSE)
\* by leaves its loop with exc, having sent nothing
Raised(by, data, exc) ==
    Event("none", by, data, NoSession, NoFrame, "none", "unset", exc, FALSE)
\* by called ws.send_json(frame)
Sent(by, data, ws, frame, out, ret, exc) ==
    Event("send_json", by, data, ws, frame, out, ret, exc, FALSE)
\* the HTTP handler op answered request req with response res
Served(op, req, res) ==
    [Event(op, NoSession, NoData, NoSession, NoFrame, "none", "unset", "none",
           FALSE) EXCEPT !.req = req, !.res = res]

\* a test for None only ("is not None"), which lets "" through
Truthy_NotNone(v) == v # Absent

\* Python truthiness of data.get(key): None and "" are falsy
Truthy(v) == v # Absent /\ v # ""

\* --------------------------------------------------- ConnectionManager
\* a lookup that hands back some registered session, whoever holds it
Lookup_Any(reg, u) ==
    IF reg # {} THEN (CHOOSE p \in reg : TRUE)[2] ELSE NoSession

\* self.active_connections.get(username)
Lookup(reg, u) ==
    IF \E p \in reg : p[1] = u
    THEN (CHOOSE p \in reg : p[1] = u)[2]
    ELSE NoSession

\* a registry that adds the new item and keeps the one it had
connect_KeepOld(reg, u, ws) == reg \cup {<<u, ws>>}

\* self.active_connections[username] = websocket
connect(reg, u, ws) == {p \in reg : p[1] # u} \cup {<<u, ws>>}

\* self.active_connections.pop(username, None)
disconnect(reg, u) == {p \in reg : p[1] # u}

\* a send_personal_message that reports every call as delivered
send_personal_message_result_True(outcome) == "True"

\* what send_personal_message hands back to its caller when the push ended
\* with outcome ("absent", "ok", "raised"): the function has no return
\* statement on any path
send_personal_message_result(outcome) == "None"

\* websocket.send_json on connection s: the frame is delivered, or the call
\* raises (closed socket, broken pipe, timeout); it always raises once the
\* coroutine of s has ended and the server has closed the connection
SendOutcomes(s) ==
    IF pc[s] = "done"
    THEN {"WebSocketDisconnect", "RuntimeError"}
    ELSE {"ok", "WebSocketDisconnect", "RuntimeError"}

\* ------------------------------------------------------------ Message store
\* a row written as already delivered
Message_Delivered(sender_id, receiver_id, content, rows, t) ==
    [id |-> Len(rows) + 1, sender_id |-> sender_id, receiver_id |-> receiver_id,
     content |-> content, status |-> "delivered", timestamp |-> t]

\* Message(sender_id, receiver_id, content, status="sent") with the column
\* defaults of models.py: autoincrement id, timestamp = utcnow
Message(sender_id, receiver_id, content, rows, t) ==
    [id |-> Len(rows) + 1, sender_id |-> sender_id, receiver_id |-> receiver_id,
     content |-> content, status |-> "sent", timestamp |-> t]

\* a commit that is lost: the row never reaches the table
db_commit_Lost(rows, msg) == rows

\* a table that hands its rows back newest first
db_commit_Prepend(rows, msg) == <<msg>> \o rows

\* db.add(msg); db.commit()
db_commit(rows, msg) == Append(rows, msg)

\* ------------------------------------------------------------ GET /messages
\* main.py 248-250: the rows exchanged between users a and b, either way,
\* in the order the table holds them
filter_pair(rows, a, b) ==
    SelectSeq(rows, LAMBDA m :
        \/ (m.sender_id = a /\ m.receiver_id = b)
        \/ (m.sender_id = b /\ m.receiver_id = a))

\* a query with no ORDER BY: the rows as the table holds them
order_by_timestamp_asc_Unordered(rows) == rows

\* main.py 251: .order_by(Message.timestamp.asc()); rows with the same
\* timestamp stay in the order the scan of the table yields them
RECURSIVE order_by_timestamp_asc(_)
order_by_timestamp_asc(rows) ==
    IF rows = << >> THEN << >>
    ELSE LET m      == rows[Len(rows)]
             sorted == order_by_timestamp_asc(SubSeq(rows, 1, Len(rows) - 1))
             k      == Cardinality({i \in 1..Len(sorted) :
                                      sorted[i].timestamp <= m.timestamp})
         IN SubSeq(sorted, 1, k) \o <<m>> \o SubSeq(sorted, k + 1, Len(sorted))

\* main.py 253-260: the JSON object returned for row m
HistoryEntry(m, user1, user2, user1_id) ==
    [id |-> m.id,
     from |-> IF m.sender_id = user1_id THEN user1 ELSE user2,
     to |-> IF m.sender_id = user1_id THEN user2 ELSE user1,
     content |-> m.content, status |-> m.status, timestamp |-> m.timestamp]

\* main.py 243-262: the body of the response of GET /messages
get_messages_body(user1, user2, rows) ==
    IF get_user_by_username(user1) = NoNum \/ get_user_by_username(user2) = NoNum
    THEN << >>
    ELSE LET msgs == order_by_timestamp_asc(
                        filter_pair(rows, get_user_by_username(user1),
                                    get_user_by_username(user2)))
         IN [i \in 1..Len(msgs) |->
               HistoryEntry(msgs[i], user1, user2, get_user_by_username(user1))]

\* datetime.utcnow() at a read that follows one at time t: the wall clock
\* has stood still, moved on, or been set back
Clock(t) == {u \in 0..(t + 1) : u <= MaxClock}

\* ------------------------------------------------------------------ Init
Init ==
    /\ active_connections = {}
    /\ messages = << >>
    /\ origin = << >>
    /\ pc = [s \in Sessions |-> "idle"]
    /\ username = [s \in Sessions |-> Absent]
    /\ cur = [s \in Sessions |-> NoCur]
    /\ wire = NoEvent
    /\ nrecv = 0
    /\ now = 0
    /\ rotated = {}

\* the registry after the coroutine of a connection opened as u ends with
\* exception exc (main.py 231-234): only WebSocketDisconnect reaches
\* manager.disconnect
Deregister(reg, u, exc) ==
    IF exc = "WebSocketDisconnect" THEN disconnect(reg, u) ELSE reg

\* the coroutine of s leaves its loop with exception exc; its locals are gone
Terminate(s, exc) ==
    /\ pc' = [pc EXCEPT ![s] = "done"]
    /\ cur' = [cur EXCEPT ![s] = NoCur]
    /\ username' = [username EXCEPT ![s] = Absent]
    /\ active_connections' = Deregister(active_connections, username[s], exc)

\* --------------------------------------------------------------- actions
\* main.py 183-186 and 164-167: a client opens /ws/chat/{u}; whatever token
\* it carries is not read
chat_websocket_connect(s, u, token) ==
    /\ pc[s] = "idle"
    /\ \A t \in Sessions : t < s => pc[t] # "idle"
    /\ active_connections' = connect(active_connections, u, s)
    /\ pc' = [pc EXCEPT ![s] = "receiving"]
    /\ username' = [username EXCEPT ![s] = u]
    /\ wire' = Event("connect", s, NoData, s, NoFrame, "none", "unset", "none",
                     validate(token, now) = u)
    /\ UNCHANGED <<messages, origin, cur, nrecv, now, rotated>>

\* main.py 189, 231-232: the client has gone and receive_json raises
\* WebSocketDisconnect
chat_websocket_disconnected(s) ==
    /\ pc[s] = "receiving"
    /\ Terminate(s, "WebSocketDisconnect")
    /\ wire' = Raised(s, NoData, "WebSocketDisconnect")
    /\ UNCHANGED <<messages, origin, nrecv, now, rotated>>

\* main.py 189: the client sent text that is not a JSON object; receive_json
\* (or data.get) raises something that is not WebSocketDisconnect
chat_websocket_bad_json(s) ==
    /\ pc[s] = "receiving"
    /\ nrecv < MaxFrames
    /\ nrecv' = nrecv + 1
    /\ Terminate(s, "JSONDecodeError")
    /\ wire' = Raised(s, NoData, "JSONDecodeError")
    /\ UNCHANGED <<messages, origin, now, rotated>>

\* main.py 195 and 201: await websocket.send_json({"error": text}); continue.
\* The call is not inside a try: an exception leaves the loop
ReplyError(s, f, text) ==
    \E out \in SendOutcomes(s) :
       IF out = "ok"
       THEN /\ wire' = Sent(s, f, s, ErrorFrame(text), out, "unset", "none")
            /\ UNCHANGED <<active_connections, pc, cur, username>>
       ELSE /\ wire' = Sent(s, f, s, ErrorFrame(text), out, "unset", out)
            /\ Terminate(s, out)

\* main.py 189-196: a frame whose "to" or "content" is missing or empty
chat_websocket_invalid(s, f) ==
    /\ pc[s] = "receiving"
    /\ nrecv < MaxFrames
    /\ ~ Truthy(f.to) \/ ~ Truthy(f.content)
    /\ nrecv' = nrecv + 1
    /\ ReplyError(s, f, "Invalid message format.")
    /\ UNCHANGED <<messages, origin, now, rotated>>

\* main.py 197-202: sender or receiver has no row in users
chat_websocket_not_found(s, f) ==
    /\ pc[s] = "receiving"
    /\ nrecv < MaxFrames
    /\ Truthy(f.to) /\ Truthy(f.content)
    /\ \/ get_user_by_username(username[s]) = NoNum
       \/ get_user_by_username(f.to) = NoNum
    /\ nrecv' = nrecv + 1
    /\ ReplyError(s, f, "User not found.")
    /\ UNCHANGED <<messages, origin, now, rotated>>

\* a handler that swallows the failed commit and waits for the next frame
chat_websocket_commit_fails_Swallowed(s, f) ==
    /\ pc[s] = "receiving"
    /\ nrecv < MaxFrames
    /\ Truthy(f.to) /\ Truthy(f.content)
    /\ get_user_by_username(username[s]) # NoNum
    /\ get_user_by_username(f.to) # NoNum
    /\ nrecv' = nrecv + 1
    /\ wire' = Raised(s, f, "SQLAlchemyError")
    /\ UNCHANGED <<active_connections, pc, cur, username, messages, origin,
                   now, rotated>>

\* main.py 203-211 failing: db.commit() raises, the row is not stored and the
\* exception leaves the loop
chat_websocket_commit_fails(s, f) ==
    /\ pc[s] = "receiving"
    /\ nrecv < MaxFrames
    /\ Truthy(f.to) /\ Truthy(f.content)
    /\ get_user_by_username(username[s]) # NoNum
    /\ get_user_by_username(f.to) # NoNum
    /\ nrecv' = nrecv + 1
    /\ Terminate(s, "SQLAlchemyError")
    /\ wire' = Raised(s, f, "SQLAlchemyError")
    /\ UNCHANGED <<messages, origin, now, rotated>>

\* main.py 189-211 and 174-175: a valid frame is persisted, then
\* send_personal_message looks the receiver up; with no entry it returns at
\* once and the coroutine goes on to the confirmation
chat_websocket_persist(s, f, t) ==
    /\ pc[s] = "receiving"
    /\ nrecv < MaxFrames
    /\ Truthy(f.to) /\ Truthy(f.content)
    /\ get_user_by_username(username[s]) # NoNum
    /\ get_user_by_username(f.to) # NoNum
    /\ LET msg == Message(get_user_by_username(username[s]),
                          get_user_by_username(f.to), f.content, messages, t)
           ws  == Lookup(active_connections, f.to)
           c   == [to |-> f.to, content |-> f.content, id |-> msg.id,
                   timestamp |-> msg.timestamp, ws |-> ws]
       IN /\ messages' = db_commit(messages, msg)
          /\ origin' = Append(origin, s)
          /\ cur' = [cur EXCEPT ![s] = c]
          /\ IF ws = NoSession
             THEN /\ pc' = [pc EXCEPT ![s] = "acking"]
                  /\ wire' = Event("send_personal_message", s, f, NoSession,
                                   Envelope(username[s], c), "absent",
                                   send_personal_message_result("absent"),
                                   "none", FALSE)
             ELSE /\ pc' = [pc EXCEPT ![s] = "pushing"]
                  /\ wire' = Event("none", s, f, NoSession, NoFrame, "none",
                                   "unset", "none", FALSE)
    /\ nrecv' = nrecv + 1
    /\ now' = t
    /\ UNCHANGED <<active_connections, username, rotated>>

\* a push whose failure propagates: the exception leaves the sender's loop
send_personal_message_Propagates(s) ==
    /\ pc[s] = "pushing"
    /\ \E out \in SendOutcomes(cur[s].ws) :
         /\ wire' = Sent(s, NoData, cur[s].ws, Envelope(username[s], cur[s]), out,
                         "None", IF out = "ok" THEN "none" ELSE out)
         /\ IF out = "ok"
            THEN /\ pc' = [pc EXCEPT ![s] = "acking"]
                 /\ UNCHANGED <<active_connections, username, cur>>
            ELSE Terminate(s, out)
    /\ UNCHANGED <<messages, origin, nrecv, now, rotated>>

\* main.py 176-179: await ws.send_json(message); an exception is logged and
\* swallowed
send_personal_message(s) ==
    /\ pc[s] = "pushing"
    /\ \E out \in SendOutcomes(cur[s].ws) :
         wire' = Sent(s, NoData, cur[s].ws, Envelope(username[s], cur[s]), out,
                      send_personal_message_result(IF out = "ok" THEN "ok" ELSE "raised"),
                      "none")
    /\ pc' = [pc EXCEPT ![s] = "acking"]
    /\ UNCHANGED <<active_connections, messages, origin, username, cur,
                   nrecv, now, rotated>>

\* a confirmation outside any try: its failure leaves the loop
chat_websocket_ack_Propagates(s) ==
    /\ pc[s] = "acking"
    /\ \E out \in SendOutcomes(s) :
         /\ wire' = Sent(s, NoData, s, AckFrame(cur[s]), out, "unset",
                         IF out = "ok" THEN "none" ELSE out)
         /\ IF out = "ok"
            THEN /\ pc' = [pc EXCEPT ![s] = "receiving"]
                 /\ cur' = [cur EXCEPT ![s] = NoCur]
                 /\ UNCHANGED <<active_connections, username>>
            ELSE Terminate(s, out)
    /\ UNCHANGED <<messages, origin, nrecv, now, rotated>>

\* main.py 220-230: the confirmation to the sender, inside try/except
chat_websocket_ack(s) ==
    /\ pc[s] = "acking"
    /\ \E out \in SendOutcomes(s) :
         wire' = Sent(s, NoData, s, AckFrame(cur[s]), out, "unset", "none")
    /\ pc' = [pc EXCEPT ![s] = "receiving"]
    /\ cur' = [cur EXCEPT ![s] = NoCur]
    /\ UNCHANGED <<active_connections, messages, origin, username, nrecv, now,
                   rotated>>

\* the JSON objects a client sends: every known and unknown receiver, and
\* each field missing or empty
Frames ==
    [to : Identities, content : Contents]
      \cup [to : {"", Absent}, content : Contents]
      \cup [to : {"alice"}, content : {"", Absent}]

\* the steps that read no clock
Core ==
    \/ \E s \in Sessions, u \in Identities, token \in Tokens \cup {NoToken} :
          chat_websocket_connect(s, u, token)
    \/ \E s \in Sessions : chat_websocket_disconnected(s)
    \/ \E s \in Sessions : chat_websocket_bad_json(s)
    \/ \E s \in Sessions, f \in Frames : chat_websocket_invalid(s, f)
    \/ \E s \in Sessions, f \in Frames : chat_websocket_not_found(s, f)
    \/ \E s \in Sessions, f \in Frames : chat_websocket_commit_fails(s, f)
    \/ \E s \in Sessions : send_personal_message(s)
    \/ \E s \in Sessions : chat_websocket_ack(s)

\* the delivery core during one tick of the clock: every row is stamped with
\* the same instant (what is stated under Spec does not depend on how two
\* timestamps compare)
Next ==
    \/ Core
    \/ \E s \in Sessions, f \in Frames : chat_websocket_persist(s, f, now)
Spec == Init /\ [][Next]_vars

\* every awaited send_json ends, by returning or by raising, and the
\* event loop then resumes the coroutine that awaits it
Fairness ==
    \A s \in Sessions :
       WF_vars(send_personal_message(s)) /\ WF_vars(chat_websocket_ack(s))
SpecFair == Init /\ [][Next]_vars /\ Fairness

\* the same with the clock moving between commits
NextClock ==
    \/ Core
    \/ \E s \in Sessions, f \in Frames, t \in Clock(now) :
          chat_websocket_persist(s, f, t)
SpecClock == Init /\ [][NextClock]_vars

\* ----------------------------------------------------- conversation history
\* the ids of the users table
UserIds == {User[u] : u \in DOMAIN User}

\* the messages tables of at most n rows: ids in insertion order, sender and
\* receiver rows of users, each timestamp a reading of the clock
RECURSIVE Tables(_)
Tables(n) ==
    IF n = 0 THEN {<< >>}
    ELSE Tables(n - 1) \cup
         {db_commit(rows, Message(a, b, c, rows, t)) :
            rows \in {r \in Tables(n - 1) : Len(r) = n - 1},
            a \in UserIds, b \in UserIds, c \in Contents, t \in 0..MaxClock}

\* the server has started on a database that holds the rows of earlier
\* runs: no connection yet, the registry empty
InitHistory ==
    /\ messages \in Tables(MaxFrames)
    /\ origin = [i \in 1..Len(messages) |-> NoSession]
    /\ active_connections = {}
    /\ pc = [s \in Sessions |-> "idle"]
    /\ username = [s \in Sessions |-> Absent]
    /\ cur = [s \in Sessions |-> NoCur]
    /\ wire = NoEvent
    /\ nrecv = 0
    /\ now = 0
    /\ rotated = {}

\* main.py 242-262: GET /messages?user1=..&user2=..
get_messages(user1, user2) ==
    /\ wire' = Served("get_messages",
                      [NoReq EXCEPT !.user1 = user1, !.user2 = user2],
                      [NoRes EXCEPT !.status = 200,
                                    !.rows = get_messages_body(user1, user2, messages)])
    /\ UNCHANGED <<active_connections, messages, origin, pc, username, cur,
                   nrecv, now, rotated>>

NextHistory == \E user1 \in Identities, user2 \in Identities : get_messages(user1, user2)
SpecHistory == InitHistory /\ [][NextHistory]_vars

\* ------------------------------------------------------------ token routes
\* the body of a 401 (HTTPException) and of a 200 with a fresh pair for sub
Unauthorized == [NoRes EXCEPT !.status = 401]
TokenPair(sub, t) ==
    [NoRes EXCEPT !.status = 200,
                  !.access_token = create_access_token(sub, t),
                  !.refresh_token = create_refresh_token(sub, t)]

\* a rotation that does not look at the type marker
refresh_token_response_AnyType(token, t) ==
    LET payload == jwt_decode(token, t)
    IN IF payload = JWTError THEN Unauthorized
       ELSE IF payload.sub = Absent THEN Unauthorized
       ELSE IF get_user_by_username(payload.sub) = NoNum THEN Unauthorized
       ELSE TokenPair(payload.sub, t)

\* main.py 137-153: the response of POST /refresh-token at time t
refresh_token_response(token, t) ==
    LET payload == jwt_decode(token, t)
    IN IF payload = JWTError THEN Unauthorized
       ELSE IF payload.type # "refresh" THEN Unauthorized
       ELSE IF payload.sub = Absent THEN Unauthorized
       ELSE IF get_user_by_username(payload.sub) = NoNum THEN Unauthorized
       ELSE TokenPair(payload.sub, t)

\* a rotation that keeps a revocation list: a refresh token is good once
refresh_token_Revoking(token) ==
    /\ Cardinality(rotated) < MaxRotations
    /\ LET res == IF \E p \in rotated : p[1] = token
                  THEN Unauthorized ELSE refresh_token_response(token, now)
       IN /\ wire' = Served("refresh_token",
                            [NoReq EXCEPT !.refresh_token = token], res)
          /\ rotated' = IF res.status = 200
                        THEN rotated \cup {<<token, now>>} ELSE rotated
    /\ UNCHANGED <<active_connections, messages, origin, pc, username, cur,
                   nrecv, now>>

\* main.py 137-153: POST /refresh-token; nothing is stored (rotated only
\* remembers which tokens were accepted, and when)
refresh_token(token) ==
    /\ Cardinality(rotated) < MaxRotations
    /\ LET res == refresh_token_response(token, now)
       IN /\ wire' = Served("refresh_token",
                            [NoReq EXCEPT !.refresh_token = token], res)
          /\ rotated' = IF res.status = 200
                        THEN rotated \cup {<<token, now>>} ELSE rotated
    /\ UNCHANGED <<active_connections, messages, origin, pc, username, cur,
                   nrecv, now>>

\* main.py 108-115: POST /login for user u; verified is the outcome of
\* verify_password
login(u, verified) ==
    /\ wire' = Served("login", [NoReq EXCEPT !.user1 = u],
                      IF get_user_by_username(u) = NoNum \/ ~ verified
                      THEN Unauthorized ELSE TokenPair(u, now))
    /\ UNCHANGED <<active_connections, messages, origin, pc, username, cur,
                   nrecv, now, rotated>>

\* main.py 73 and 78: datetime.utcnow() a minute later
utcnow_advances ==
    /\ now < MaxClock
    /\ now' = now + 1
    /\ wire' = NoEvent
    /\ UNCHANGED <<active_connections, messages, origin, pc, username, cur,
                   nrecv, rotated>>

\* the tokens a client presents to /refresh-token: well-formed JWTs with
\* every combination of subject, type marker, expiry and signing key (those
\* signed with SECRET_KEY were issued earlier, up to seven days ago), and
\* the pair the server handed out last
PresentedTokens ==
    [sub  : {"alice", "eve", Absent},
     type : {"refresh", "other", Absent},
     exp  : 0..MaxClock,
     key  : {SECRET_KEY, "forged"}]
      \cup {wire.res.refresh_token, wire.res.access_token}

NextAuth ==
    \/ \E token \in PresentedTokens : refresh_token(token)
    \/ \E u \in Identities, verified \in BOOLEAN : login(u, verified)
    \/ utcnow_advances
SpecAuth == Init /\ [][NextAuth]_vars

\* ------------------------------------------------------------ properties
\* the sessions the registry holds under identity x
Holders(reg, x) == {p[2] : p \in {q \in reg : q[1] = x}}
\* the table holds a row with this id
Stored(id) == \E i \in 1..Len(messages) : messages[i].id = id
\* the position of that row
RowOf(id) == CHOOSE i \in 1..Len(messages) : messages[i].id = id
\* the frame is an envelope for a receiver (it carries "from")
IsEnvelope(frame) == frame.from # Absent

\* C1: deregistration never evicts a newer session: a step leaves identity x
\* without an entry only if it is taken by the session that x's entry held.
C1_DeregisterOnlyOwnEntry ==
    [][\A p \in active_connections :
          Lookup(active_connections', p[1]) = NoSession => wire'.by = p[2]]_vars

\* C2: once the coroutine of a session has ended, whatever ended it, the
\* registry maps no identity to that session.
C2_EndedSessionNotRegistered ==
    \A s \in Sessions :
       pc[s] = "done" => \A p \in active_connections : p[2] # s

\* C3: when an envelope with id n is pushed to a session, the row with id n
\* is in the messages table, with the envelope's content and sender.
C3_PersistedBeforePushed ==
    (wire.op = "send_json" /\ IsEnvelope(wire.frame)) =>
       /\ Stored(wire.frame.id)
       /\ messages[RowOf(wire.frame.id)].content = wire.frame.content
       /\ messages[RowOf(wire.frame.id)].sender_id = get_user_by_username(wire.frame.from)

\* C3 happens: alice's envelope has been delivered to bob's session
C3_Witness ==
    /\ wire.op = "send_json" /\ wire.out = "ok"
    /\ wire.frame.from = "alice"
    /\ wire.ws # wire.by
    /\ username[wire.ws] = "bob"

\* C4: a connection enters the registry only if its client presented a token
\* that validates (signature, expiry) to the identity it connects as.
C4_RegisteredOnlyWithValidToken ==
    (wire.op = "connect" /\ <<username[wire.by], wire.by>> \in active_connections)
       => wire.auth

\* C5: the registry holds at most one session per identity, and right after
\* a session has registered as x, lookup(x) is that session, whatever was
\* there before.
C5_RegisterReplaces ==
    /\ \A x \in Identities : Cardinality(Holders(active_connections, x)) <= 1
    /\ wire.op = "connect" =>
          Lookup(active_connections, username[wire.by]) = wire.by

\* C5 happens: session 2 has just registered under the identity session 1
\* is still connected as
C5_Witness ==
    /\ wire.op = "connect" /\ wire.by = 2
    /\ pc[1] # "done" /\ username[1] = username[2]
    /\ Lookup(active_connections, username[2]) = 2

\* the step received a JSON object (wire'.data) from session wire'.by
ReceivedFrame == nrecv' = nrecv + 1 /\ wire'.data # NoData
\* a field that is missing (None) or empty
Blank(v) == v = Absent \/ v = ""
\* the step sent the error reply text to its own session and nothing else
RepliedError(text) ==
    /\ wire'.op = "send_json"
    /\ wire'.ws = wire'.by
    /\ wire'.frame = ErrorFrame(text)
\* the registry loses entries only through a WebSocketDisconnect
RegistryKeptUnlessDisconnect ==
    \/ active_connections' = active_connections
    \/ /\ wire'.exc = "WebSocketDisconnect"
       /\ active_connections' = {p \in active_connections : p[1] # username[wire'.by]}

\* C6 as stated: a frame whose "to" or "content" is missing or empty gets the
\* validation error as reply, persists nothing, pushes nothing to a
\* recipient, leaves the registry unchanged and the session receiving.
C6_InvalidFrameKeepsSessionOpen ==
    [][(ReceivedFrame /\ (Blank(wire'.data.to) \/ Blank(wire'.data.content))) =>
          /\ RepliedError("Invalid message format.")
          /\ messages' = messages
          /\ active_connections' = active_connections
          /\ pc'[wire'.by] = "receiving"]_vars

\* C6 amended: such a frame makes the session try to reply with the
\* validation error and persists and pushes nothing; when the reply is sent
\* the registry is unchanged and the session goes on receiving; when sending
\* it raises, the exception leaves the loop, and the registry changes only
\* by the deregistration a WebSocketDisconnect causes.
C6_InvalidFrameRepliesOrEnds ==
    [][(ReceivedFrame /\ (Blank(wire'.data.to) \/ Blank(wire'.data.content))) =>
          /\ RepliedError("Invalid message format.")
          /\ messages' = messages
          /\ wire'.out = "ok" =>
                /\ active_connections' = active_connections
                /\ pc'[wire'.by] = "receiving"
                /\ cur'[wire'.by] = NoCur
          /\ wire'.out # "ok" =>
                /\ pc'[wire'.by] = "done"
                /\ wire'.exc # "none"
                /\ RegistryKeptUnlessDisconnect]_vars

\* C6 happens: a frame with an empty "to" was answered and the session is
\* receiving again
C6_Witness ==
    /\ wire.data # NoData /\ wire.data.to = ""
    /\ wire.op = "send_json" /\ wire.out = "ok"
    /\ wire.frame = ErrorFrame("Invalid message format.")
    /\ pc[wire.by] = "receiving"

\* the sender of the step or the frame's receiver has no row in users
Unresolved ==
    \/ username[wire'.by] \notin DOMAIN User
    \/ wire'.data.to \notin DOMAIN User

\* C7 as stated: a well-formed frame whose receiver or sender does not
\* resolve gets "User not found." as reply, leaves table and registry
\* unchanged and the session receiving.
C7_NotFoundKeepsSessionOpen ==
    [][(ReceivedFrame /\ ~ Blank(wire'.data.to) /\ ~ Blank(wire'.data.content)
          /\ Unresolved) =>
          /\ RepliedError("User not found.")
          /\ messages' = messages
          /\ active_connections' = active_connections
          /\ pc'[wire'.by] = "receiving"]_vars

\* C7 amended: such a frame makes the session try to reply "User not
\* found." and leaves the table unchanged; when the reply is sent the
\* registry is unchanged and the session goes on receiving; when sending it
\* raises, the exception leaves the loop, and the registry changes only by
\* the deregistration a WebSocketDisconnect causes.
C7_NotFoundRepliesOrEnds ==
    [][(ReceivedFrame /\ ~ Blank(wire'.data.to) /\ ~ Blank(wire'.data.content)
          /\ Unresolved) =>
          /\ RepliedError("User not found.")
          /\ messages' = messages
          /\ wire'.out = "ok" =>
                /\ active_connections' = active_connections
                /\ pc'[wire'.by] = "receiving"
                /\ cur'[wire'.by] = NoCur
          /\ wire'.out # "ok" =>
                /\ pc'[wire'.by] = "done"
                /\ wire'.exc # "none"
                /\ RegistryKeptUnlessDisconnect]_vars

\* C7 happens: alice's frame to an unknown receiver was answered and her
\* session is receiving again
C7_Witness ==
    /\ wire.data # NoData /\ wire.data.to = "eve" /\ wire.data.content = "hi"
    /\ wire.op = "send_json" /\ wire.out = "ok"
    /\ wire.frame = ErrorFrame("User not found.")
    /\ username[wire.by] = "alice"
    /\ pc[wire.by] = "receiving"

\* C8: a session has one frame in hand at a time: it takes the next one only
\* when the push and the confirmation of the last are over; and the row of
\* the frame in hand comes after every row the same session stored before
\* for the same receiver (later in the table, greater id).
C8_PersistedInProcessingOrder ==
    /\ [](\A s \in Sessions :
            pc[s] \in {"pushing", "acking"} =>
               /\ Stored(cur[s].id)
               /\ origin[cur[s].id] = s
               /\ \A p \in 1..Len(messages) :
                     (/\ origin[messages[p].id] = s
                      /\ messages[p].receiver_id = messages[RowOf(cur[s].id)].receiver_id
                      /\ p # RowOf(cur[s].id))
                     => (p < RowOf(cur[s].id) /\ messages[p].id < cur[s].id))
    /\ [][\A s \in Sessions :
            (Len(origin') > Len(origin) /\ origin'[Len(origin')] = s) =>
               /\ pc[s] = "receiving" /\ cur[s] = NoCur
               /\ pc'[s] \in {"pushing", "acking"}
               /\ cur'[s].id = Len(origin')]_vars

\* C8 happens: one session has stored two rows for the same receiver and
\* holds the second
C8_Witness ==
    \E s \in Sessions :
       /\ pc[s] \in {"pushing", "acking"}
       /\ Len(messages) = 2
       /\ origin[1] = s /\ origin[2] = s
       /\ messages[1].receiver_id = messages[2].receiver_id
       /\ cur[s].id = 2

\* a value the caller reads as "not delivered"
NotDelivered(ret) == ret \in {"None", "False"}

\* C9: send to an identity with no registered session reports "not
\* delivered" and raises nothing; the registry is unchanged and the table
\* holds only the one row the router committed for the frame before calling.
C9_SendToAbsentIdentity ==
    [][(ReceivedFrame /\ Len(messages') > Len(messages)
          /\ Lookup(active_connections, wire'.data.to) = NoSession) =>
          /\ wire'.op = "send_personal_message"
          /\ wire'.out = "absent"
          /\ NotDelivered(wire'.ret)
          /\ wire'.exc = "none"
          /\ pc'[wire'.by] = "acking"
          /\ active_connections' = active_connections
          /\ Len(messages') = Len(messages) + 1
          /\ \A i \in 1..Len(messages) : \E j \in 1..Len(messages') :
                messages'[j] = messages[i]]_vars

\* C9 happens: alice's message to bob was stored while bob had no session
C9_Witness ==
    /\ wire.op = "send_personal_message" /\ wire.out = "absent"
    /\ wire.data.to = "bob"
    /\ Holders(active_connections, "bob") = {}
    /\ pc[wire.by] = "acking"
    /\ Len(messages) = 1

\* the step is the push of session wire'.by to the session it looked up
PushStep ==
    /\ wire'.op = "send_json" /\ IsEnvelope(wire'.frame)
    /\ pc[wire'.by] = "pushing"

\* C10: when the push to a registered session raises, send returns a value
\* that says "not delivered", nothing propagates to the caller, which goes on
\* to the confirmation, and the registry is as it was, the recipient's entry
\* included; send returns true only when the push succeeded.
C10_PushFailureIsSwallowed ==
    [][/\ (PushStep /\ wire'.out = "raised") =>
             /\ NotDelivered(wire'.ret)
             /\ wire'.exc = "none"
             /\ pc'[wire'.by] = "acking"
             /\ active_connections' = active_connections
       /\ wire'.ret = "True" => wire'.out = "ok"]_vars

\* C10 happens: the push to bob's registered session raised and the sender
\* is about to confirm
C10_Witness ==
    /\ wire.op = "send_json" /\ IsEnvelope(wire.frame) /\ wire.out = "raised"
    /\ pc[wire.by] = "acking"
    /\ cur[wire.by].to = "bob"
    /\ <<"bob", wire.ws>> \in active_connections

\* the session has a stored message in hand, between commit and confirmation
InHand(s) == pc[s] \in {"pushing", "acking"}
\* the step is the confirmation of session wire'.by to its own client
AckStep ==
    /\ wire'.op = "send_json" /\ ~ IsEnvelope(wire'.frame)
    /\ pc[wire'.by] = "acking"
\* the step stored the frame wire'.data of session wire'.by
PersistStep == ReceivedFrame /\ Len(messages') > Len(messages)
\* the entries of get_history(a, b) that carry message id n
HistoryOf(a, b, n) ==
    {i \in 1..Len(get_messages_body(a, b, messages)) :
        get_messages_body(a, b, messages)[i].id = n}

\* what session s does with a valid frame to a registered receiver: the
\* commit hands out id n and the session looks the receiver up; it then
\* pushes to that session the envelope {from: A, content: c, status: sent,
\* id: n} and next sends its own client the confirmation with the same n;
\* all the while get_history(A, B) holds exactly one entry with id n, and
\* that entry has content c, from A and to B
EndToEnd ==
    /\ [](\A s \in Sessions : InHand(s) =>
             /\ Cardinality(HistoryOf(username[s], cur[s].to, cur[s].id)) = 1
             /\ \A i \in HistoryOf(username[s], cur[s].to, cur[s].id) :
                   LET e == get_messages_body(username[s], cur[s].to, messages)[i]
                   IN e.content = cur[s].content /\ e.from = username[s]
                      /\ e.to = cur[s].to /\ e.status = "sent")
    /\ [][/\ (PersistStep /\ Lookup(active_connections, wire'.data.to) # NoSession) =>
                 /\ pc'[wire'.by] = "pushing"
                 /\ cur'[wire'.by].ws = Lookup(active_connections, wire'.data.to)
                 /\ cur'[wire'.by].to = wire'.data.to
                 /\ cur'[wire'.by].content = wire'.data.content
                 /\ cur'[wire'.by].id = Len(messages')
          /\ PushStep =>
                 /\ wire'.ws = cur[wire'.by].ws
                 /\ wire'.frame.from = username[wire'.by]
                 /\ wire'.frame.content = cur[wire'.by].content
                 /\ wire'.frame.status = "sent"
                 /\ wire'.frame.id = cur[wire'.by].id
                 /\ pc'[wire'.by] = "acking"
                 /\ cur'[wire'.by] = cur[wire'.by]
          /\ AckStep =>
                 /\ wire'.ws = wire'.by
                 /\ wire'.frame.to = cur[wire'.by].to
                 /\ wire'.frame.content = cur[wire'.by].content
                 /\ wire'.frame.status = "sent"
                 /\ wire'.frame.id = cur[wire'.by].id]_vars

\* C11 as stated: with A and B registered, a valid frame {to: B, content: c}
\* of A's session ends with B's session having received the envelope (from
\* A, content c, status sent, id n), A's session having received the
\* confirmation with the same n, and get_history(A, B) holding exactly one
\* entry with id n and content c.
C11_EndToEndDelivered ==
    /\ EndToEnd
    /\ [][(PushStep \/ AckStep) => wire'.out = "ok"]_vars

\* C11 amended: the envelope is pushed to the session registered for B and
\* the confirmation with the same id to A's session; each is received when
\* its send_json does not raise (a failed push or confirmation is logged
\* and the session carries on); get_history(A, B) holds exactly one entry
\* with id n and content c from the commit on.
C11_EndToEndAttempted ==
    /\ EndToEnd
    /\ [][/\ (PushStep /\ wire'.out = "raised") =>
               (wire'.exc = "none" /\ pc'[wire'.by] = "acking")
          /\ (AckStep /\ wire'.out = "raised") =>
               (wire'.exc = "none" /\ pc'[wire'.by] = "receiving")]_vars

\* C11 happens: alice's confirmation for her message to bob has been
\* delivered, after the push to bob's session, and the history of the two
\* holds the one entry
C11_Witness ==
    /\ wire.op = "send_json" /\ wire.out = "ok" /\ wire.ws = wire.by
    /\ username[wire.by] = "alice" /\ wire.frame.to = "bob"
    /\ wire.frame.id = 1
    /\ \E s \in Sessions : s # wire.by /\ username[s] = "bob"
                            /\ <<"bob", s>> \in active_connections
    /\ Len(get_messages_body("alice", "bob", messages)) = 1
    /\ get_messages_body("alice", "bob", messages)[1].id = 1

\* the last step answered a history query for two known identities
AnsweredKnown ==
    /\ wire.op = "get_messages"
    /\ wire.req.user1 \in DOMAIN User /\ wire.req.user2 \in DOMAIN User
\* row m was exchanged between identities a and b, in either direction
Between(m, a, b) ==
    \/ (m.sender_id = User[a] /\ m.receiver_id = User[b])
    \/ (m.sender_id = User[b] /\ m.receiver_id = User[a])
\* the identity of a user id
NameOf(id) == CHOOSE u \in DOMAIN User : User[u] = id

C13_UnknownIdentityEmptyHistory ==
    /\ []((wire.op = "get_messages"
            /\ (wire.req.user1 \notin DOMAIN User \/ wire.req.user2 \notin DOMAIN User))
           => (wire.res.rows = << >> /\ wire.res.status = 200 /\ wire.exc = "none"))
    /\ [][wire'.op = "get_messages" => messages' = messages]_vars

\* C13 happens: the history of unknown eve and alice was asked for while
\* the table holds a message of alice to herself, and came back empty
C13_Witness ==
    /\ wire.op = "get_messages"
    /\ wire.req.user1 = "eve" /\ wire.req.user2 = "alice"
    /\ wire.res.rows = << >>
    /\ \E i \in 1..Len(messages) :
          messages[i].sender_id = User["alice"] /\ messages[i].receiver_id = User["alice"]

\* the token decodes under SECRET_KEY at time t: signature good, not expired
Decodes(token, t) == token.key = SECRET_KEY /\ token.exp >= t

\* C14: /refresh-token answers 401, and hands out no token, for every token
\* whose type marker is missing or not "refresh" (every access token among
\* them), whose signature is bad, whose expiry has passed or which embeds
\* no identity; for a valid refresh token issued for a known identity X it
\* answers with a new pair whose access token validates to X.
C14_RotationRejectsAndRebinds ==
    wire.op = "refresh_token" =>
       LET r == wire.req.refresh_token
       IN /\ (r.type # "refresh" \/ r.key # SECRET_KEY \/ r.exp < now
                 \/ r.sub = Absent) =>
                /\ wire.res.status = 401
                /\ wire.res.access_token = NoToken
                /\ wire.res.refresh_token = NoToken
          /\ (r.type = "refresh" /\ Decodes(r, now) /\ r.sub \in DOMAIN User) =>
                /\ wire.res.status = 200
                /\ validate(wire.res.access_token, now) = r.sub
                /\ wire.res.access_token.type # "refresh"
                /\ wire.res.refresh_token.type = "refresh"
                /\ wire.res.refresh_token.sub = r.sub
                /\ Decodes(wire.res.refresh_token, now)

\* C14 happens: a refresh token of alice that login issued has been rotated
\* and the new access token validates to alice
C14_Witness ==
    /\ wire.op = "refresh_token" /\ wire.res.status = 200
    /\ wire.req.refresh_token = create_refresh_token("alice", 0)
    /\ validate(wire.res.access_token, now) = "alice"

\* C15: a refresh token that /refresh-token has accepted before is accepted
\* again whenever it is presented before its own expiry, whatever was
\* rotated in between.
C15_RotationRevokesNothing ==
    [][(/\ wire'.op = "refresh_token"
        /\ wire'.req.refresh_token \in {p[1] : p \in rotated}
        /\ wire'.req.refresh_token.exp >= now') =>
           (wire'.res.status = 200 /\ wire'.res.refresh_token # NoToken)]_vars

\* C15 happens: a refresh token accepted at minute 0 has been accepted
\* again at minute 1, after the token its first rotation returned was
\* rotated too
C15_Witness ==
    /\ wire.op = "refresh_token" /\ wire.res.status = 200 /\ now = 1
    /\ <<wire.req.refresh_token, 0>> \in rotated
    /\ <<wire.req.refresh_token, 1>> \in rotated
    /\ <<create_refresh_token(wire.req.refresh_token.sub, 0), 0>> \in rotated
    /\ wire.req.refresh_token # create_refresh_token(wire.req.refresh_token.sub, 0)

\* a session whose coroutine has ended takes no further step
EndedStaysEnded ==
    \A s \in Sessions :
       pc[s] = "done" => (pc'[s] = "done" /\ (wire' # wire => wire'.by # s))

\* C16: when the commit of a message fails, the session's loop ends with
\* the exception; the step sends nothing (no envelope, no confirmation) and
\* leaves nothing in hand to send later, the table is as before, and every
\* other session is where it was, its registration included.
C16_PersistenceFailureEndsSessionOnly ==
    [][/\ wire'.exc = "SQLAlchemyError" =>
             /\ pc'[wire'.by] = "done"
             /\ messages' = messages
             /\ wire'.op = "none" /\ wire'.frame = NoFrame
             /\ cur'[wire'.by] = NoCur
             /\ active_connections' = active_connections
             /\ \A s \in Sessions \ {wire'.by} :
                   pc'[s] = pc[s] /\ cur'[s] = cur[s] /\ username'[s] = username[s]
       /\ EndedStaysEnded]_vars

\* C16 happens: the commit of a frame addressed to bob, whose session is
\* registered and running, failed; the sender's session has ended, bob's
\* has not, and the table is empty
C16_Witness ==
    /\ wire.exc = "SQLAlchemyError" /\ wire.data.to = "bob"
    /\ pc[wire.by] = "done"
    /\ messages = << >>
    /\ \E s \in Sessions :
          /\ s # wire.by /\ pc[s] = "receiving"
          /\ <<"bob", s>> \in active_connections

\* C17: a session that has stored a message holds it until it has tried to
\* send the confirmation for it to its own client: whether the receiver is
\* absent from the registry, the push succeeds or the push raises, the
\* session's next step after the lookup or push is that send_json, and it
\* gets there.
C17_AckAlwaysAttempted ==
    /\ [][/\ PersistStep => pc'[wire'.by] \in {"pushing", "acking"}
          /\ (PersistStep /\ Lookup(active_connections, wire'.data.to) = NoSession)
                => pc'[wire'.by] = "acking"
          /\ PushStep => pc'[wire'.by] = "acking"
          /\ \A s \in Sessions :
                (InHand(s) /\ pc'[s] \notin {"pushing", "acking"}) =>
                   /\ pc[s] = "acking" /\ pc'[s] = "receiving"
                   /\ wire'.op = "send_json" /\ wire'.by = s /\ wire'.ws = s
                   /\ wire'.frame = AckFrame(cur[s])]_vars
    /\ \A s \in Sessions : InHand(s) ~> ~ InHand(s)

\* C17 happens: the confirmation of a stored message to bob has been sent
\* to its sender although the session registered for bob has ended
C17_Witness ==
    /\ wire.op = "send_json" /\ wire.ws = wire.by /\ wire.frame.to = "bob"
    /\ wire.frame.id = 1 /\ Len(messages) = 1
    /\ pc[wire.by] = "receiving"
    /\ \E s \in Sessions : s # wire.by /\ <<"bob", s>> \in active_connections
                            /\ pc[s] = "done"

\* C18: when the confirmation to the sender raises, the stored message
\* stays in the table, the registry is as it was, the step sends nothing to
\* the receiver, and the session is left with no message in hand (it waits
\* for its next frame), so the push already made is neither undone nor
\* made again: a session starts pushing only by storing a new message.
C18_AckFailureChangesNothing ==
    [][/\ (AckStep /\ wire'.out = "raised") =>
             /\ messages' = messages
             /\ Stored(cur[wire'.by].id)
             /\ active_connections' = active_connections
             /\ wire'.exc = "none"
             /\ wire'.ws = wire'.by
             /\ pc'[wire'.by] = "receiving" /\ cur'[wire'.by] = NoCur
             /\ \A s \in Sessions \ {wire'.by} : pc'[s] = pc[s] /\ cur'[s] = cur[s]
       /\ \A s \in Sessions :
             (pc'[s] = "pushing" /\ pc[s] # "pushing") =>
                /\ pc[s] = "receiving"
                /\ Len(messages') = Len(messages) + 1
                /\ cur'[s].id = Len(messages')]_vars

\* C18 happens: alice's confirmation for her stored message to bob raised;
\* her session waits for its next frame and the row is still there
C18_Witness ==
    /\ wire.op = "send_json" /\ wire.ws = wire.by /\ wire.out = "raised"
    /\ wire.frame.to = "bob" /\ wire.frame.id = 1
    /\ username[wire.by] = "alice" /\ pc[wire.by] = "receiving"
    /\ Stored(1) /\ messages[1].content = wire.frame.content
    /\ <<"alice", wire.by>> \in active_connections

\* C19: every row of the messages table has status "sent", and a step only
\* appends to the table: no row is changed or removed.
C19_StatusSentStoreOnlyGrows ==
    /\ [](\A i \in 1..Len(messages) : messages[i].status = "sent")
    /\ [][/\ Len(messages') >= Len(messages)
          /\ \A i \in 1..Len(messages) : messages'[i] = messages[i]]_vars

\* C19 happens: a second row has been stored after the first was pushed and
\* confirmed, and the first is as it was written
C19_Witness ==
    /\ Len(messages) = 2
    /\ messages[1].status = "sent" /\ messages[2].status = "sent"
    /\ messages[1].id = 1 /\ messages[2].id = 2
    /\ \E s \in Sessions : InHand(s) /\ cur[s].id = 2 /\ origin[1] = s

\* C20: the session a message to B is pushed to is the one the registry
\* held under B when the sender looked B up (a session that was superseded
\* for B before is not in the registry under B); the sender keeps that
\* choice and the message id until the push; envelopes are sent by pushes
\* only; and no session is registered under two identities.
C20_NoMisdelivery ==
    /\ [](\A p \in active_connections, q \in active_connections :
             p[2] = q[2] => p[1] = q[1])
    /\ [][/\ (PersistStep /\ pc'[wire'.by] = "pushing") =>
                /\ <<wire'.data.to, cur'[wire'.by].ws>> \in active_connections
                /\ cur'[wire'.by].to = wire'.data.to
          /\ \A s \in Sessions :
                (pc[s] = "pushing" /\ pc'[s] = "pushing") => cur'[s] = cur[s]
          /\ (wire' # wire /\ wire'.op = "send_json" /\ IsEnvelope(wire'.frame)) =>
                /\ pc[wire'.by] = "pushing"
                /\ wire'.ws = cur[wire'.by].ws
                /\ wire'.frame.id = cur[wire'.by].id
                /\ messages[RowOf(wire'.frame.id)].receiver_id =
                      get_user_by_username(cur[wire'.by].to)]_vars

\* C20 happens: alice connected twice; the superseded session 1, still
\* open, sent a message to alice and it was pushed to session 2, the one
\* the registry holds
C20_Witness ==
    /\ wire.op = "send_json" /\ IsEnvelope(wire.frame) /\ wire.out = "ok"
    /\ wire.by = 1 /\ wire.ws = 2
    /\ username[1] = "alice" /\ username[2] = "alice"
    /\ cur[1].to = "alice"
    /\ active_connections = {<<"alice", 2>>}

====
